---- MODULE Spec2Model ----
(***************************************************************************)
(* Model of the persistence backend in src-tauri/src/main.rs: the          *)
(* configuration file config.json next to the executable, the in-memory    *)
(* storage-path override (StoragePathState, a Mutex<String>), and the      *)
(* commands that load and save todos.json and lists.json.                  *)
(*                                                                         *)
(* Every command invocation is a process p.  Each step of a command that   *)
(* touches shared state (the mutex, the configuration file, a data file)   *)
(* is one action, so that concurrent invocations interleave exactly at the *)
(* points where the code lets them.  Filesystem reads and writes can fail  *)
(* (a bounded number of injected faults), the process can crash and        *)
(* restart, and an override directory can be removed from outside.         *)
(***************************************************************************)
EXTENDS Integers, Sequences, FiniteSets, TLC

\* ---------------------------------------------------------------- bounds
NumProcs == 2        \* concurrently running command invocations
MaxCalls == 2        \* command invocations per concurrent behaviour
MoreCalls == 3       \* the same, for the longer concurrent behaviours
SeqMaxCalls == 3     \* command invocations per sequential behaviour
MaxFaults == 1       \* injected filesystem failures per behaviour
MaxRestarts == 1     \* crashes followed by a restart per behaviour
ThemeMaxCalls == 3   \* command invocations per behaviour about the theme
QueryMaxCalls == 2   \* command invocations per behaviour about the query
MigrMaxCalls == 5    \* command invocations per behaviour about directories

\* ------------------------------------------------------- values and sets
Procs == 1..NumProcs
NoProc == 0

Dirs == {"d1", "d2"}              \* directories a user can choose
AppDir == "app"                   \* get_app_dir(): directory of the executable
RegularFile == "f1"               \* a path that exists and is not a directory
Missing == "nx"                   \* a path that never exists
PathArgs == {""} \cup Dirs \cup {RegularFile, Missing}
DataDirs == Dirs \cup {AppDir}

Colls == {"todos", "lists"}
Docs == {"a", "b"}                \* text payloads handed to save
Themes == {"dark"}
MoreThemes == Themes \cup {"blue"}   \* for the behaviours about the theme
ListIds == {"L1", "L2"}           \* list ids asked of has_todos_in_list
NoFile == "NoFile"                \* content of a path where no file exists
Unset == "Unset"                  \* no value (history variables, locals)

Range(f) == {f[x] : x \in DOMAIN f}

\* Option<String>: None is <<>>, Some(t) is <<t>>
None == <<>>
Some(t) == <<t>>

VARIABLES
    storage_path_state,  \* StoragePathState.0: the in-memory override
    lock,                \* holder of the Mutex guard, or NoProc
    config_file,         \* config.json: None (absent) or Some(serialized text)
    files,               \* [FilePaths -> Docs \cup {NoFile}]
    dirs,                \* the directories of Dirs that exist
    pc,                  \* [Procs -> position in the command]
    call,                \* [Procs -> the running or last completed command]
    config,              \* [Procs -> local `config` of the command]
    path,                \* [Procs -> local `path` of load_*/save_*]
    res,                 \* [Procs -> result of the last completed command]
    io,                  \* [Procs -> outcome of the data file access]
    lists_str,           \* [Procs -> local `lists_str` of has_todos_in_list]
    calls, faults, restarts,   \* counters for the bounds
    bootFault,           \* main() fell back to the default record
    \* observations of the behaviour so far, kept for the properties
    saved,               \* [Colls -> last document saved and still current]
    lastSet,             \* argument of the last set_storage_path that returned
                         \* Ok with no set_storage_path invoked since
    fresh,               \* [Procs -> the call was invoked while lastSet was set]
    lastOk,              \* argument of the last set_storage_path that returned Ok
    bootExpect,          \* directory set successfully right before the restart
    lastTheme,           \* argument of the last set_theme that returned Ok
                         \* with no set_theme invoked since
    savedIn              \* [FilePaths -> document of the last successful save
                         \* made while the override selected that directory]

fsVars == <<config_file, files, dirs>>
procVars == <<pc, call, config, path, res, io, lists_str>>
countVars == <<calls, faults, restarts>>
histVars == <<saved, lastSet, fresh, lastOk, bootExpect, lastTheme, savedIn>>
vars == <<storage_path_state, lock, fsVars, procVars, countVars, bootFault,
          histVars>>

\* ------------------------------------------------------------- AppConfig
\* struct AppConfig { storage_path: String, theme: Option<String> }
AppConfig(sp, th) == [storage_path |-> sp, theme |-> th]

\* The record load_or_create_config and main synthesize when there is no file.
DefaultConfig == AppConfig("", None)

\* serde_json::to_string(&config): a JSON object whose members are JSON
\* values; a string is <<"str", s>> and an absent theme is <<"null">>.
to_string(c) ==
    [storage_path |-> <<"str", c.storage_path>>,
     theme |-> IF c.theme = None THEN <<"null">> ELSE <<"str", c.theme[1]>>]

\* serde_json::from_str::<AppConfig>(text): Some(config), or None when the
\* text does not have the record's shape (a parse error).
from_str(text) ==
    IF /\ DOMAIN text = {"storage_path", "theme"}
       /\ text.storage_path[1] = "str"
       /\ text.theme[1] \in {"str", "null"}
    THEN Some(AppConfig(text.storage_path[2],
                        IF text.theme[1] = "null" THEN None
                        ELSE Some(text.theme[2])))
    ELSE None

\* The storage_path a reader of config.json finds; no file is the default record.
PersistedPath ==
    IF config_file = None THEN DefaultConfig.storage_path
    ELSE from_str(config_file[1])[1].storage_path

\* The theme a reader of config.json finds (an Option).
PersistedTheme ==
    IF config_file = None THEN DefaultConfig.theme
    ELSE from_str(config_file[1])[1].theme

\* ------------------------------------------------------------ filesystem
\* PathBuf::exists() and PathBuf::is_dir() of a set_storage_path argument.
path_exists(p) == p \in dirs \/ p = RegularFile
path_is_dir(p) == p \in dirs

\* The file name of a collection.
FileName(coll) == IF coll = "todos" THEN "todos.json" ELSE "lists.json"

\* `path` of load_* / save_*: the directory the override selects, joined
\* with the collection's file name.
ResolveDir(storage_path) ==
    IF storage_path = "" THEN AppDir ELSE storage_path

ResolvePath(storage_path, coll) ==
    <<ResolveDir(storage_path), FileName(coll)>>

FilePaths == DataDirs \X {FileName(c) : c \in Colls}

\* Results handed back to the caller: Ok(value) or Err(message).
Ok(v) == [ok |-> TRUE, val |-> v]
Err(m) == [ok |-> FALSE, val |-> m]
NoResult == [ok |-> FALSE, val |-> Unset]

NoCall == [op |-> "none", coll |-> Unset, arg |-> Unset]
Commands ==
    {[op |-> "set_storage_path", coll |-> Unset, arg |-> a] : a \in PathArgs}
    \cup {[op |-> "set_theme", coll |-> Unset, arg |-> t] : t \in Themes}
    \cup {[op |-> "get_theme", coll |-> Unset, arg |-> Unset]}
    \cup {[op |-> "load_storage_path", coll |-> Unset, arg |-> Unset]}
    \cup {[op |-> "load", coll |-> c, arg |-> Unset] : c \in Colls}
    \cup {[op |-> "save", coll |-> c, arg |-> d] : c \in Colls, d \in Docs}
    \cup {[op |-> "has_todos_in_list", coll |-> "lists", arg |-> i] :
              i \in ListIds}

EmptyArray == "[]"
LightTheme == "light"

\* ----------------------------------------------------------------- main
\* main(): load_or_create_config().unwrap_or_else(default record).  With no
\* file the default record is written; when the read or that write fails
\* (`fault`) the error is swallowed and the default record is used.
main_config_file(cf, fault) ==
    IF cf = None /\ ~fault THEN Some(to_string(DefaultConfig)) ELSE cf

main_config(cf, fault) ==
    IF fault \/ cf = None \/ from_str(cf[1]) = None THEN DefaultConfig
    ELSE from_str(cf[1])[1]

\* Mutant: main() starts with an empty override whatever the record holds.
main_state_empty(cf, fault) == ""

\* StoragePathState(Mutex::new(config.storage_path))
main_state(cf, fault) == main_config(cf, fault).storage_path

\* Configuration files a start can find: none (first run) or one a previous
\* run wrote.
InitConfigFiles ==
    {None} \cup {Some(to_string(AppConfig(sp, None))) : sp \in {"", "d1"}}

Init ==
    \E cf \in InitConfigFiles, fault \in {f \in BOOLEAN : f => MaxFaults > 0} :
        /\ config_file = main_config_file(cf, fault)
        /\ storage_path_state = main_state(cf, fault)
        /\ bootFault = fault
        /\ faults = IF fault THEN 1 ELSE 0
        /\ lock = NoProc
        /\ files = [f \in FilePaths |-> NoFile]
        /\ dirs = Dirs
        /\ pc = [p \in Procs |-> "idle"]
        /\ call = [p \in Procs |-> NoCall]
        /\ config = [p \in Procs |-> DefaultConfig]
        /\ path = [p \in Procs |-> Unset]
        /\ res = [p \in Procs |-> NoResult]
        /\ io = [p \in Procs |-> "none"]
        /\ lists_str = [p \in Procs |-> Unset]
        /\ calls = 0
        /\ restarts = 0
        /\ saved = [c \in Colls |-> Unset]
        /\ lastSet = Unset
        /\ fresh = [p \in Procs |-> FALSE]
        /\ lastOk = Unset
        /\ bootExpect = Unset
        /\ lastTheme = Unset
        /\ savedIn = [f \in FilePaths |-> NoFile]

\* ------------------------------------------------------- command plumbing
\* The command of p returns r: its locals are dropped.
Return(p, r) ==
    /\ pc' = [pc EXCEPT ![p] = "idle"]
    /\ res' = [res EXCEPT ![p] = r]
    /\ config' = [config EXCEPT ![p] = DefaultConfig]
    /\ path' = [path EXCEPT ![p] = Unset]

\* A filesystem call may fail while the fault budget lasts.
CanFault == faults < MaxFaults
Fault == faults' = faults + 1
NoFault == faults' = faults

InSetStoragePath(q) == pc[q] # "idle" /\ call[q].op = "set_storage_path"

\* The front end invokes command c as process p.
Invoke(p, c) ==
    /\ pc[p] = "idle"
    /\ calls' = calls + 1
    /\ call' = [call EXCEPT ![p] = c]
    /\ pc' = [pc EXCEPT ![p] =
          CASE c.op = "set_storage_path" ->
                   IF c.arg = "" THEN "ssp_clear" ELSE "ssp_check"
            [] c.op \in {"set_theme", "get_theme", "load_storage_path"} ->
                   "cfg_exists"
            [] c.op \in {"load", "has_todos_in_list"} -> "load_lock"
            [] c.op = "save" -> "save_lock"]
    /\ res' = [res EXCEPT ![p] = NoResult]
    /\ io' = [io EXCEPT ![p] = "none"]
    /\ UNCHANGED <<storage_path_state, lock, fsVars, config, path, lists_str,
                   faults, restarts, bootFault>>

\* ------------------------------------------------------ set_storage_path
\* Mutant: the empty branch forgets to clear the in-memory override.
set_storage_path_clear_keep(p) ==
    /\ pc[p] = "ssp_clear"
    /\ lock = NoProc
    /\ pc' = [pc EXCEPT ![p] = "cfg_exists"]
    /\ UNCHANGED <<storage_path_state, lock, fsVars, call, lists_str, config, path,
                   res, io, countVars, bootFault>>

\* main.rs 67-68: the empty path clears the override first, under the mutex
\* (the guard is a temporary of the assignment statement).
set_storage_path_clear(p) ==
    /\ pc[p] = "ssp_clear"
    /\ lock = NoProc
    /\ storage_path_state' = ""
    /\ pc' = [pc EXCEPT ![p] = "cfg_exists"]
    /\ UNCHANGED <<lock, fsVars, call, lists_str, config, path, res, io, countVars,
                   bootFault>>

\* Mutant: the is_dir test is missing, so any existing path is accepted.
set_storage_path_check_exists_only(p) ==
    /\ pc[p] = "ssp_check"
    /\ IF ~path_exists(call[p].arg)
       THEN /\ Return(p, Err("Path does not exist"))
       ELSE /\ pc' = [pc EXCEPT ![p] = "cfg_exists"]
            /\ UNCHANGED <<config, path, res, bootFault>>
    /\ UNCHANGED <<storage_path_state, lock, fsVars, call, lists_str, io, countVars,
                   bootFault>>

\* main.rs 75-81: a non-empty path must exist and be a directory.
set_storage_path_check(p) ==
    /\ pc[p] = "ssp_check"
    /\ IF ~path_exists(call[p].arg)
       THEN /\ Return(p, Err("Path does not exist"))
       ELSE IF ~path_is_dir(call[p].arg)
       THEN /\ Return(p, Err("Path is not a directory"))
       ELSE /\ pc' = [pc EXCEPT ![p] = "cfg_exists"]
            /\ UNCHANGED <<config, path, res, bootFault>>
    /\ UNCHANGED <<storage_path_state, lock, fsVars, call, lists_str, io, countVars,
                   bootFault>>

\* Mutant: the documents move to the new directory with the override.
set_storage_path_assign_migrate(p) ==
    /\ pc[p] = "ssp_assign"
    /\ lock = NoProc
    /\ storage_path_state' = call[p].arg
    /\ files' = [f \in FilePaths |->
                    IF ResolveDir(storage_path_state) = call[p].arg
                    THEN files[f]
                    ELSE IF f[1] = call[p].arg
                    THEN files[<<ResolveDir(storage_path_state), f[2]>>]
                    ELSE IF f[1] = ResolveDir(storage_path_state)
                    THEN NoFile
                    ELSE files[f]]
    /\ Return(p, Ok("()"))
    /\ UNCHANGED <<lock, config_file, dirs, call, lists_str, io, countVars,
                   bootFault>>

\* main.rs 87-88: the override is assigned under the mutex, after the
\* configuration was saved, and the command returns Ok.
set_storage_path_assign(p) ==
    /\ pc[p] = "ssp_assign"
    /\ lock = NoProc
    /\ storage_path_state' = call[p].arg
    /\ Return(p, Ok("()"))
    /\ UNCHANGED <<lock, fsVars, call, lists_str, io, countVars,
                   bootFault>>

\* ------------------------------------------------- load_or_create_config
\* main.rs 28-31: config_path.exists()
load_or_create_config_exists(p) ==
    /\ pc[p] = "cfg_exists"
    /\ pc' = [pc EXCEPT ![p] =
                 IF config_file # None THEN "cfg_read" ELSE "cfg_create"]
    /\ UNCHANGED <<storage_path_state, lock, fsVars, call, lists_str, config, path,
                   res, io, countVars, bootFault>>

\* Mutant: set_storage_path builds a new record and loses the theme.
Loaded_drop_theme(p, c) ==
    CASE call[p].op = "set_theme" ->
             /\ config' = [config EXCEPT
                              ![p] = [c EXCEPT !.theme = Some(call[p].arg)]]
             /\ pc' = [pc EXCEPT ![p] = "save_config"]
             /\ UNCHANGED <<path, res, bootFault>>
      [] call[p].op = "set_storage_path" ->
             /\ config' = [config EXCEPT
                              ![p] = AppConfig(call[p].arg, None)]
             /\ pc' = [pc EXCEPT ![p] = "save_config"]
             /\ UNCHANGED <<path, res, bootFault>>
      [] call[p].op = "get_theme" ->
             /\ Return(p, Ok(IF c.theme = None THEN LightTheme
                             ELSE c.theme[1]))
      [] call[p].op = "load_storage_path" ->
             /\ Return(p, Ok(c.storage_path))

\* Mutant: set_theme builds a new record and loses the storage path.
Loaded_drop_path(p, c) ==
    CASE call[p].op = "set_theme" ->
             /\ config' = [config EXCEPT
                              ![p] = AppConfig("", Some(call[p].arg))]
             /\ pc' = [pc EXCEPT ![p] = "save_config"]
             /\ UNCHANGED <<path, res, bootFault>>
      [] call[p].op = "set_storage_path" ->
             /\ config' = [config EXCEPT
                              ![p] = [c EXCEPT !.storage_path = call[p].arg]]
             /\ pc' = [pc EXCEPT ![p] = "save_config"]
             /\ UNCHANGED <<path, res, bootFault>>
      [] call[p].op = "get_theme" ->
             /\ Return(p, Ok(IF c.theme = None THEN LightTheme
                             ELSE c.theme[1]))
      [] call[p].op = "load_storage_path" ->
             /\ Return(p, Ok(c.storage_path))

\* What the caller of load_or_create_config does with the record c:
\* set_theme (55) and set_storage_path (70, 85) change their field and go on
\* to save_config; get_theme (62) and load_storage_path (148) return a field.
Loaded(p, c) ==
    CASE call[p].op = "set_theme" ->
             /\ config' = [config EXCEPT
                              ![p] = [c EXCEPT !.theme = Some(call[p].arg)]]
             /\ pc' = [pc EXCEPT ![p] = "save_config"]
             /\ UNCHANGED <<path, res, bootFault>>
      [] call[p].op = "set_storage_path" ->
             /\ config' = [config EXCEPT
                              ![p] = [c EXCEPT !.storage_path = call[p].arg]]
             /\ pc' = [pc EXCEPT ![p] = "save_config"]
             /\ UNCHANGED <<path, res, bootFault>>
      [] call[p].op = "get_theme" ->
             /\ Return(p, Ok(IF c.theme = None THEN LightTheme
                             ELSE c.theme[1]))
      [] call[p].op = "load_storage_path" ->
             /\ Return(p, Ok(c.storage_path))

\* main.rs 32-33: read and parse the file; either can fail.
load_or_create_config_read(p) ==
    /\ pc[p] = "cfg_read"
    /\ \/ /\ CanFault
          /\ Fault
          /\ Return(p, Err("io error"))
       \/ /\ NoFault
          /\ IF from_str(config_file[1]) = None
             THEN /\ Return(p, Err("parse error"))
             ELSE Loaded(p, from_str(config_file[1])[1])
    /\ UNCHANGED <<storage_path_state, lock, fsVars, call, lists_str, io, calls,
                   restarts, bootFault>>

\* Mutant: with no file the default record is returned and nothing is written.
load_or_create_config_create_no_write(p) ==
    /\ pc[p] = "cfg_create"
    /\ NoFault
    /\ Loaded(p, DefaultConfig)
    /\ UNCHANGED <<storage_path_state, lock, fsVars, call, lists_str, io,
                   calls, restarts, bootFault>>

\* main.rs 35-41: no file: write the default record and return it.
load_or_create_config_create(p) ==
    /\ pc[p] = "cfg_create"
    /\ \/ /\ CanFault
          /\ Fault
          /\ Return(p, Err("io error"))
          /\ UNCHANGED config_file
       \/ /\ NoFault
          /\ config_file' = Some(to_string(DefaultConfig))
          /\ Loaded(p, DefaultConfig)
    /\ UNCHANGED <<storage_path_state, lock, files, dirs, call, lists_str, io, calls,
                   restarts, bootFault>>

\* main.rs 45-50, and what its callers do next: set_theme (56) and the empty
\* branch of set_storage_path (71-72) return, the other branch goes on to
\* assign the override.
save_config(p) ==
    /\ pc[p] = "save_config"
    /\ \/ /\ CanFault
          /\ Fault
          /\ Return(p, Err("io error"))
          /\ UNCHANGED config_file
       \/ /\ NoFault
          /\ config_file' = Some(to_string(config[p]))
          /\ IF call[p].op = "set_storage_path" /\ call[p].arg # ""
             THEN /\ pc' = [pc EXCEPT ![p] = "ssp_assign"]
                  /\ UNCHANGED <<config, path, res, bootFault>>
             ELSE /\ Return(p, Ok("()"))
    /\ UNCHANGED <<storage_path_state, lock, files, dirs, call, lists_str, io, calls,
                   restarts, bootFault>>

\* ------------------------------------------------ load_todos, load_lists
\* Mutant: the guard is dropped as soon as `path` is computed.
load_lock_released(p) ==
    /\ pc[p] = "load_lock"
    /\ lock = NoProc
    /\ path' = [path EXCEPT
                   ![p] = ResolvePath(storage_path_state, call[p].coll)]
    /\ pc' = [pc EXCEPT ![p] = "load_read"]
    /\ UNCHANGED <<storage_path_state, lock, fsVars, call, lists_str, config, res,
                   io, countVars, bootFault>>

\* main.rs 93-98 (120-125): lock the mutex and compute `path`.  The guard
\* `storage_path` lives to the end of the function.
load_lock(p) ==
    /\ pc[p] = "load_lock"
    /\ lock = NoProc
    /\ lock' = p
    /\ path' = [path EXCEPT
                   ![p] = ResolvePath(storage_path_state, call[p].coll)]
    /\ pc' = [pc EXCEPT ![p] = "load_read"]
    /\ UNCHANGED <<storage_path_state, fsVars, call, lists_str, config, res,
                   io, countVars, bootFault>>

\* load_* returns Ok(content): to the front end, or to has_todos_in_list
\* (main.rs 153), which keeps it in `lists_str` and goes on to parse it.
LoadReturn(p, content) ==
    IF call[p].op = "has_todos_in_list"
    THEN /\ lists_str' = [lists_str EXCEPT ![p] = content]
         /\ pc' = [pc EXCEPT ![p] = "has_todos"]
         /\ path' = [path EXCEPT ![p] = Unset]
         /\ UNCHANGED <<config, res>>
    ELSE /\ Return(p, Ok(content))
         /\ UNCHANGED lists_str

\* Mutant: a missing file gives the empty string (as the unused loaders of
\* lib.rs do) instead of "[]".
load_read_empty_string(p) ==
    /\ pc[p] = "load_read"
    /\ \/ /\ files[path[p]] = NoFile
          /\ NoFault
          /\ io' = [io EXCEPT ![p] = "notfound"]
          /\ LoadReturn(p, "")
       \/ /\ files[path[p]] # NoFile
          /\ CanFault
          /\ Fault
          /\ io' = [io EXCEPT ![p] = "fault"]
          /\ LoadReturn(p, EmptyArray)
       \/ /\ files[path[p]] # NoFile
          /\ NoFault
          /\ io' = [io EXCEPT ![p] = "ok"]
          /\ LoadReturn(p, files[path[p]])
    /\ lock' = NoProc
    /\ UNCHANGED <<storage_path_state, fsVars, call, calls, restarts,
                   bootFault>>

\* Mutant: the guard is leaked (never dropped) when load_* returns.
load_read_keep_guard(p) ==
    /\ pc[p] = "load_read"
    /\ \/ /\ files[path[p]] = NoFile
          /\ NoFault
          /\ io' = [io EXCEPT ![p] = "notfound"]
          /\ LoadReturn(p, EmptyArray)
       \/ /\ files[path[p]] # NoFile
          /\ CanFault
          /\ Fault
          /\ io' = [io EXCEPT ![p] = "fault"]
          /\ LoadReturn(p, EmptyArray)
       \/ /\ files[path[p]] # NoFile
          /\ NoFault
          /\ io' = [io EXCEPT ![p] = "ok"]
          /\ LoadReturn(p, files[path[p]])
    /\ UNCHANGED <<storage_path_state, lock, fsVars, call, calls, restarts,
                   bootFault>>

\* main.rs 100-103 (127-130): read_to_string; every error gives "[]".  The
\* guard is dropped on return.
load_read(p) ==
    /\ pc[p] = "load_read"
    /\ \/ /\ files[path[p]] = NoFile
          /\ NoFault
          /\ io' = [io EXCEPT ![p] = "notfound"]
          /\ LoadReturn(p, EmptyArray)
       \/ /\ files[path[p]] # NoFile
          /\ CanFault
          /\ Fault
          /\ io' = [io EXCEPT ![p] = "fault"]
          /\ LoadReturn(p, EmptyArray)
       \/ /\ files[path[p]] # NoFile
          /\ NoFault
          /\ io' = [io EXCEPT ![p] = "ok"]
          /\ LoadReturn(p, files[path[p]])
    /\ lock' = NoProc
    /\ UNCHANGED <<storage_path_state, fsVars, call, calls, restarts,
                   bootFault>>

\* ------------------------------------------------ save_todos, save_lists
\* main.rs 108-113 (135-140)
save_lock(p) ==
    /\ pc[p] = "save_lock"
    /\ lock = NoProc
    /\ lock' = p
    /\ path' = [path EXCEPT
                   ![p] = ResolvePath(storage_path_state, call[p].coll)]
    /\ pc' = [pc EXCEPT ![p] = "save_write"]
    /\ UNCHANGED <<storage_path_state, fsVars, call, lists_str, config, res,
                   io, countVars, bootFault>>

\* Mutant: a save that finds its directory gone falls back to the default
\* directory by clearing the override.
save_write_clear_stale(p) ==
    /\ pc[p] = "save_write"
    /\ \/ /\ path[p][1] \notin dirs \cup {AppDir}
          /\ NoFault
          /\ io' = [io EXCEPT ![p] = "nodir"]
          /\ storage_path_state' = ""
          /\ Return(p, Err("io error"))
          /\ UNCHANGED files
       \/ /\ path[p][1] \in dirs \cup {AppDir}
          /\ CanFault
          /\ Fault
          /\ io' = [io EXCEPT ![p] = "fault"]
          /\ Return(p, Err("io error"))
          /\ UNCHANGED <<files, storage_path_state>>
       \/ /\ path[p][1] \in dirs \cup {AppDir}
          /\ NoFault
          /\ io' = [io EXCEPT ![p] = "ok"]
          /\ files' = [files EXCEPT ![path[p]] = call[p].arg]
          /\ Return(p, Ok("()"))
          /\ UNCHANGED storage_path_state
    /\ lock' = NoProc
    /\ UNCHANGED <<config_file, dirs, call, lists_str, calls, restarts,
                   bootFault>>

\* Mutant: the directory is created when it is missing (create_dir_all
\* before the write).
save_write_create_dir(p) ==
    /\ pc[p] = "save_write"
    /\ \/ /\ CanFault
          /\ Fault
          /\ io' = [io EXCEPT ![p] = "fault"]
          /\ Return(p, Err("io error"))
          /\ UNCHANGED <<files, dirs>>
       \/ /\ NoFault
          /\ io' = [io EXCEPT ![p] = "ok"]
          /\ dirs' = dirs \cup ({path[p][1]} \ {AppDir})
          /\ files' = [files EXCEPT ![path[p]] = call[p].arg]
          /\ Return(p, Ok("()"))
    /\ lock' = NoProc
    /\ UNCHANGED <<storage_path_state, config_file, call, lists_str, calls,
                   restarts, bootFault>>

\* main.rs 115 (142): fs::write creates or truncates the file; it fails when
\* the directory is gone, or for any other I/O reason.
save_write(p) ==
    /\ pc[p] = "save_write"
    /\ \/ /\ path[p][1] \notin dirs \cup {AppDir}
          /\ NoFault
          /\ io' = [io EXCEPT ![p] = "nodir"]
          /\ Return(p, Err("io error"))
          /\ UNCHANGED files
       \/ /\ path[p][1] \in dirs \cup {AppDir}
          /\ CanFault
          /\ Fault
          /\ io' = [io EXCEPT ![p] = "fault"]
          /\ Return(p, Err("io error"))
          /\ UNCHANGED files
       \/ /\ path[p][1] \in dirs \cup {AppDir}
          /\ NoFault
          /\ io' = [io EXCEPT ![p] = "ok"]
          /\ files' = [files EXCEPT ![path[p]] = call[p].arg]
          /\ Return(p, Ok("()"))
    /\ lock' = NoProc
    /\ UNCHANGED <<storage_path_state, config_file, dirs, call, lists_str, calls,
                   restarts, bootFault>>

\* ------------------------------------------------------ has_todos_in_list
\* serde_json::Value: a string, a number, an array of values or an object
\* (a function from member names to values).
JString(x) == [t |-> "string", v |-> x]
JNumber(n) == [t |-> "number", v |-> n]
JArray(elems) == [t |-> "array", v |-> elems]
JObject(members) == [t |-> "object", v |-> members]

\* The todo every non-empty todos array of the documents below holds.
TodoA == JObject([title |-> JString("a")])

\* The JSON texts a lists file holds in the behaviours about the query, with
\* the value serde_json reads from each.
JsonTexts ==
    { "[]",
      "[{\"id\":\"L1\",\"todos\":[{\"title\":\"a\"}]}]",
      "[{\"id\":\"L1\",\"todos\":[]}]",
      "[{\"id\":\"L2\",\"todos\":[{\"title\":\"a\"}]}]",
      "[{\"id\":\"L1\"}]",
      "[{\"todos\":[{\"title\":\"a\"}]}]",
      "[{\"id\":1,\"todos\":[{\"title\":\"a\"}]}]",
      "[{\"id\":\"L1\",\"todos\":\"a\"}]",
      "[1]",
      "[{\"id\":\"L1\",\"todos\":[]},{\"id\":\"L1\",\"todos\":[{\"title\":\"a\"}]}]",
      "{\"id\":\"L1\",\"todos\":[{\"title\":\"a\"}]}",
      "[{\"id\":\"L1\"" }

\* serde_json::from_str::<Value>(text): Some(value), or None when the text is
\* not JSON (the truncated text above, and the payloads of Docs).
from_str_value(text) ==
    CASE text = "[]" -> Some(JArray(<<>>))
      [] text = "[{\"id\":\"L1\",\"todos\":[{\"title\":\"a\"}]}]" ->
            Some(JArray(<<JObject([id |-> JString("L1"),
                                   todos |-> JArray(<<TodoA>>)])>>))
      [] text = "[{\"id\":\"L1\",\"todos\":[]}]" ->
            Some(JArray(<<JObject([id |-> JString("L1"),
                                   todos |-> JArray(<<>>)])>>))
      [] text = "[{\"id\":\"L2\",\"todos\":[{\"title\":\"a\"}]}]" ->
            Some(JArray(<<JObject([id |-> JString("L2"),
                                   todos |-> JArray(<<TodoA>>)])>>))
      [] text = "[{\"id\":\"L1\"}]" ->
            Some(JArray(<<JObject([id |-> JString("L1")])>>))
      [] text = "[{\"todos\":[{\"title\":\"a\"}]}]" ->
            Some(JArray(<<JObject([todos |-> JArray(<<TodoA>>)])>>))
      [] text = "[{\"id\":1,\"todos\":[{\"title\":\"a\"}]}]" ->
            Some(JArray(<<JObject([id |-> JNumber(1),
                                   todos |-> JArray(<<TodoA>>)])>>))
      [] text = "[{\"id\":\"L1\",\"todos\":\"a\"}]" ->
            Some(JArray(<<JObject([id |-> JString("L1"),
                                   todos |-> JString("a")])>>))
      [] text = "[1]" -> Some(JArray(<<JNumber(1)>>))
      [] text = "[{\"id\":\"L1\",\"todos\":[]},{\"id\":\"L1\",\"todos\":[{\"title\":\"a\"}]}]" ->
            Some(JArray(<<JObject([id |-> JString("L1"),
                                   todos |-> JArray(<<>>)]),
                          JObject([id |-> JString("L1"),
                                   todos |-> JArray(<<TodoA>>)])>>))
      [] text = "{\"id\":\"L1\",\"todos\":[{\"title\":\"a\"}]}" ->
            Some(JObject([id |-> JString("L1"),
                          todos |-> JArray(<<TodoA>>)]))
      [] OTHER -> None

\* main.rs 154-155: serde_json::from_str::<Vec<Value>>(&lists_str): the text
\* must be JSON and its value an array; Some(elements) or None (an error).
from_str_vec(text) ==
    LET value == from_str_value(text)
    IN  IF value = None THEN None
        ELSE IF value[1].t = "array" THEN Some(value[1].v)
        ELSE None

\* Value::get(key): the member of an object, None for any other value.
get(value, key) ==
    IF value.t = "object" /\ key \in DOMAIN value.v
    THEN Some(value.v[key]) ELSE None

as_str(value) == IF value.t = "string" THEN Some(value.v) ELSE None
as_array(value) == IF value.t = "array" THEN Some(value.v) ELSE None

\* Option::unwrap_or
unwrap_or(opt, default) == IF opt = None THEN default ELSE opt[1]

\* Mutant: a list with the id counts even when it has no todos.
has_todos_id_only(list, list_id) ==
    LET id == get(list, "id")
        id_str == IF id = None THEN None ELSE as_str(id[1])
        id_eq == IF id_str = None THEN None ELSE Some(id_str[1] = list_id)
    IN  unwrap_or(id_eq, FALSE)

\* main.rs 158-166: the closure handed to any().  and_then applies as_str
\* or as_array to the member when there is one, map applies the test to
\* its result when there is one, and unwrap_or(false) answers for None.
has_todos(list, list_id) ==
    LET id == get(list, "id")
        id_str == IF id = None THEN None ELSE as_str(id[1])
        id_eq == IF id_str = None THEN None ELSE Some(id_str[1] = list_id)
        todos == get(list, "todos")
        todos_arr == IF todos = None THEN None ELSE as_array(todos[1])
        todos_some == IF todos_arr = None THEN None
                      ELSE Some(Len(todos_arr[1]) # 0)
    IN  unwrap_or(id_eq, FALSE) /\ unwrap_or(todos_some, FALSE)

\* main.rs 154-167: parse `lists_str` (an error when that fails) and answer
\* whether any element is the list with the id and has todos.  No lock is
\* held here: the guard of load_lists was dropped when it returned.
has_todos_in_list(p) ==
    /\ pc[p] = "has_todos"
    /\ LET lists == from_str_vec(lists_str[p])
       IN  IF lists = None
           THEN Return(p, Err("parse error"))
           ELSE Return(p, Ok(\E i \in 1..Len(lists[1]) :
                                 has_todos(lists[1][i], call[p].arg)))
    /\ lists_str' = [lists_str EXCEPT ![p] = Unset]
    /\ UNCHANGED <<storage_path_state, lock, fsVars, call, io, countVars,
                   bootFault>>

\* ------------------------------------------------------------ environment
\* The process stops at any point (every running command is lost, the mutex
\* with it) and main() runs again on the files as they are.
Restart ==
    /\ restarts < MaxRestarts
    /\ restarts' = restarts + 1
    /\ \E fault \in {f \in BOOLEAN : f => CanFault} :
          /\ config_file' = main_config_file(config_file, fault)
          /\ storage_path_state' = main_state(config_file, fault)
          /\ bootFault' = fault
          /\ faults' = IF fault THEN faults + 1 ELSE faults
    /\ lock' = NoProc
    /\ pc' = [p \in Procs |-> "idle"]
    /\ call' = [p \in Procs |-> NoCall]
    /\ config' = [p \in Procs |-> DefaultConfig]
    /\ path' = [p \in Procs |-> Unset]
    /\ res' = [p \in Procs |-> NoResult]
    /\ io' = [p \in Procs |-> "none"]
    /\ lists_str' = [p \in Procs |-> Unset]
    /\ UNCHANGED <<files, dirs, calls>>

\* A directory the user chose is removed from outside, with the files in it.
RemoveDir(d) ==
    /\ d \in dirs
    /\ dirs' = dirs \ {d}
    /\ files' = [f \in FilePaths |-> IF f[1] = d THEN NoFile ELSE files[f]]
    /\ UNCHANGED <<storage_path_state, lock, config_file, procVars, countVars,
                   bootFault>>

\* ---------------------------------------------------------- specifications
\* A command was invoked, or returned, in this step.
Invoked(p) == pc[p] = "idle" /\ pc'[p] # "idle"
HasReturned(p) == pc[p] # "idle" /\ pc'[p] = "idle" /\ restarts' = restarts
SetInvoked == \E p \in Procs : Invoked(p) /\ call'[p].op = "set_storage_path"
SetReturned(p) == HasReturned(p) /\ call[p].op = "set_storage_path"

\* What a behaviour of concurrent commands records: the argument of a
\* set_storage_path that returned Ok when no other one was running and none
\* was invoked since, and the commands invoked while that holds.
ObserveWindow ==
    /\ lastSet' =
          IF SetInvoked THEN Unset
          ELSE IF \E p \in Procs : SetReturned(p)
          THEN LET p == CHOOSE q \in Procs : SetReturned(q)
               IN  IF res'[p].ok /\ \A q \in Procs \ {p} : ~InSetStoragePath(q)
                   THEN call[p].arg ELSE Unset
          ELSE lastSet
    /\ fresh' =
          IF SetInvoked THEN [q \in Procs |-> FALSE]
          ELSE [q \in Procs |-> IF Invoked(q) THEN lastSet # Unset
                                 ELSE fresh[q]]
    /\ UNCHANGED <<saved, lastOk, bootExpect, lastTheme, savedIn>>

\* What a sequential behaviour records: the document of the last successful
\* save of each collection (forgotten when a set_storage_path or another
\* save of the collection returns, at a restart and when a directory is
\* removed), the argument of the last set_storage_path that returned Ok
\* since the start, and the directory set right before a restart.
ObserveSequence ==
    /\ saved' =
          IF restarts' # restarts \/ dirs' # dirs
             \/ \E p \in Procs : SetReturned(p)
          THEN [c \in Colls |-> Unset]
          ELSE IF \E p \in Procs : HasReturned(p) /\ call[p].op = "save"
          THEN LET p == CHOOSE q \in Procs :
                            HasReturned(q) /\ call[q].op = "save"
               IN  [saved EXCEPT ![call[p].coll] =
                       IF res'[p].ok THEN call[p].arg ELSE Unset]
          ELSE saved
    /\ lastOk' =
          IF restarts' # restarts THEN Unset
          ELSE IF \E p \in Procs : SetReturned(p) /\ res'[p].ok
          THEN call[CHOOSE q \in Procs : SetReturned(q)].arg
          ELSE lastOk
    /\ bootExpect' =
          IF restarts' # restarts
          THEN IF lastOk \in Dirs /\ \A q \in Procs : ~InSetStoragePath(q)
               THEN lastOk ELSE Unset
          ELSE IF SetInvoked THEN Unset
          ELSE bootExpect
    /\ UNCHANGED <<lastSet, fresh, lastTheme, savedIn>>

\* One step of the command of p, in a behaviour of concurrent commands.
Step(p) ==
    \/ set_storage_path_clear(p) /\ faults' = faults /\ ObserveWindow
    \/ set_storage_path_check(p) /\ faults' = faults /\ ObserveWindow
    \/ set_storage_path_assign(p) /\ faults' = faults /\ ObserveWindow
    \/ load_or_create_config_exists(p) /\ faults' = faults /\ ObserveWindow
    \/ load_or_create_config_read(p) /\ faults' = faults /\ ObserveWindow
    \/ load_or_create_config_create(p) /\ faults' = faults /\ ObserveWindow
    \/ save_config(p) /\ faults' = faults /\ ObserveWindow
    \/ load_lock(p) /\ faults' = faults /\ ObserveWindow
    \/ load_read(p) /\ faults' = faults /\ ObserveWindow
    \/ save_lock(p) /\ faults' = faults /\ ObserveWindow
    \/ save_write(p) /\ faults' = faults /\ ObserveWindow
    \/ has_todos_in_list(p) /\ faults' = faults /\ ObserveWindow

\* One step of the command of p, in a sequential behaviour.
SeqStep(p) ==
    \/ set_storage_path_clear(p) /\ ObserveSequence
    \/ set_storage_path_check(p) /\ ObserveSequence
    \/ set_storage_path_assign(p) /\ ObserveSequence
    \/ load_or_create_config_exists(p) /\ ObserveSequence
    \/ load_or_create_config_read(p) /\ ObserveSequence
    \/ load_or_create_config_create(p) /\ ObserveSequence
    \/ save_config(p) /\ ObserveSequence
    \/ load_lock(p) /\ ObserveSequence
    \/ load_read(p) /\ ObserveSequence
    \/ save_lock(p) /\ ObserveSequence
    \/ save_write(p) /\ ObserveSequence
    \/ has_todos_in_list(p) /\ ObserveSequence

AllIdle == \A p \in Procs : pc[p] = "idle"

\* Commands run concurrently on the thread pool; no filesystem call fails
\* and the process keeps running.  At most `max` commands are invoked.
ConcNext(max) ==
    \/ \E p \in Procs : \E c \in Commands :
          calls < max /\ Invoke(p, c) /\ ObserveWindow
    \/ \E p \in Procs : Step(p)

Next == ConcNext(MaxCalls)

\* The start read config.json, or found none and could not create it.
SpecInit == Init /\ (bootFault => config_file = None)

Spec == SpecInit /\ [][Next]_vars

\* The same with one more command, for the races that need three.
LongNext == ConcNext(MoreCalls)

LongSpec == SpecInit /\ [][LongNext]_vars

\* One command runs to completion before the next starts; filesystem calls
\* can fail, the process can crash at any step and start again, and a
\* directory can disappear.
SeqNext ==
    \/ \E c \in Commands :
          calls < SeqMaxCalls /\ AllIdle /\ Invoke(1, c) /\ ObserveSequence
    \/ \E p \in Procs : SeqStep(p)
    \/ Restart /\ ObserveSequence
    \/ \E d \in Dirs : RemoveDir(d) /\ ObserveSequence

SeqSpec == Init /\ [][SeqNext]_vars

\* What a behaviour about the theme records: the argument of the last
\* set_theme that returned Ok, forgotten when the next set_theme is invoked
\* and kept over a restart.
ObserveTheme ==
    /\ lastTheme' =
          IF \E p \in Procs : Invoked(p) /\ call'[p].op = "set_theme"
          THEN Unset
          ELSE IF \E p \in Procs : HasReturned(p) /\ call[p].op = "set_theme"
          THEN LET p == CHOOSE q \in Procs :
                            HasReturned(q) /\ call[q].op = "set_theme"
               IN  IF res'[p].ok THEN call[p].arg ELSE Unset
          ELSE lastTheme
    /\ UNCHANGED <<saved, lastSet, fresh, lastOk, bootExpect, savedIn>>

\* The commands that read or write config.json, with two themes to set.
ThemeCommands ==
    {[op |-> "set_theme", coll |-> Unset, arg |-> t] : t \in MoreThemes}
    \cup {[op |-> "get_theme", coll |-> Unset, arg |-> Unset]}
    \cup {[op |-> "set_storage_path", coll |-> Unset, arg |-> a] :
              a \in {"", "d1"}}

ThemeStep(p) ==
    \/ set_storage_path_clear(p) /\ ObserveTheme
    \/ set_storage_path_check(p) /\ ObserveTheme
    \/ set_storage_path_assign(p) /\ ObserveTheme
    \/ load_or_create_config_exists(p) /\ ObserveTheme
    \/ load_or_create_config_read(p) /\ ObserveTheme
    \/ load_or_create_config_create(p) /\ ObserveTheme
    \/ save_config(p) /\ ObserveTheme

\* The configuration commands one at a time; filesystem calls can fail and
\* the process can crash at any step and start again.
ThemeNext ==
    \/ \E c \in ThemeCommands :
          calls < ThemeMaxCalls /\ AllIdle /\ Invoke(1, c) /\ ObserveTheme
    \/ \E p \in Procs : ThemeStep(p)
    \/ Restart /\ ObserveTheme

ThemeSpec == Init /\ [][ThemeNext]_vars

\* save_lists with the JSON texts (and one payload that is not JSON) and the
\* query on the lists document.
QueryCommands ==
    {[op |-> "save", coll |-> "lists", arg |-> d] :
        d \in JsonTexts \cup {"a"}}
    \cup {[op |-> "has_todos_in_list", coll |-> "lists", arg |-> i] :
              i \in ListIds}

QueryStep(p) ==
    \/ save_lock(p) /\ faults' = faults /\ UNCHANGED histVars
    \/ save_write(p) /\ faults' = faults /\ UNCHANGED histVars
    \/ load_lock(p) /\ faults' = faults /\ UNCHANGED histVars
    \/ load_read(p) /\ faults' = faults /\ UNCHANGED histVars
    \/ has_todos_in_list(p) /\ faults' = faults /\ UNCHANGED histVars

\* The lists document is saved and queried, one command at a time; no
\* filesystem call fails.
QueryNext ==
    \/ \E c \in QueryCommands :
          /\ calls < QueryMaxCalls
          /\ AllIdle
          /\ Invoke(1, c)
          /\ UNCHANGED histVars
    \/ \E p \in Procs : QueryStep(p)

QuerySpec == SpecInit /\ [][QueryNext]_vars

\* One step of the command of p; nothing is recorded.
FairStep(p) ==
    \/ set_storage_path_clear(p) /\ faults' = faults /\ UNCHANGED histVars
    \/ set_storage_path_check(p) /\ faults' = faults /\ UNCHANGED histVars
    \/ set_storage_path_assign(p) /\ faults' = faults /\ UNCHANGED histVars
    \/ load_or_create_config_exists(p) /\ faults' = faults
          /\ UNCHANGED histVars
    \/ load_or_create_config_read(p) /\ faults' = faults
          /\ UNCHANGED histVars
    \/ load_or_create_config_create(p) /\ faults' = faults
          /\ UNCHANGED histVars
    \/ save_config(p) /\ faults' = faults /\ UNCHANGED histVars
    \/ load_lock(p) /\ faults' = faults /\ UNCHANGED histVars
    \/ load_read(p) /\ faults' = faults /\ UNCHANGED histVars
    \/ save_lock(p) /\ faults' = faults /\ UNCHANGED histVars
    \/ save_write(p) /\ faults' = faults /\ UNCHANGED histVars
    \/ has_todos_in_list(p) /\ faults' = faults /\ UNCHANGED histVars

\* Every command, with one argument for each way it can go.
FairCommands ==
    {[op |-> "set_storage_path", coll |-> Unset, arg |-> a] :
        a \in {"", "d1", Missing}}
    \cup {[op |-> "set_theme", coll |-> Unset, arg |-> "dark"]}
    \cup {[op |-> "get_theme", coll |-> Unset, arg |-> Unset]}
    \cup {[op |-> "load_storage_path", coll |-> Unset, arg |-> Unset]}
    \cup {[op |-> "load", coll |-> c, arg |-> Unset] : c \in Colls}
    \cup {[op |-> "save", coll |-> c, arg |-> "a"] : c \in Colls}
    \cup {[op |-> "has_todos_in_list", coll |-> "lists", arg |-> "L1"]}

\* The thread pool hands a command to any idle worker: the first one here.
FairNext ==
    \/ \E p \in Procs : \E c \in FairCommands :
          /\ calls < MaxCalls
          /\ \A q \in 1..(p - 1) : pc[q] # "idle"
          /\ Invoke(p, c)
          /\ UNCHANGED histVars
    \/ \E p \in Procs : FairStep(p)

\* Concurrent commands on the thread pool, each of which keeps being
\* scheduled: a command that can take a step eventually takes one.
FairSpec ==
    SpecInit /\ [][FairNext]_vars /\ \A p \in Procs : WF_vars(FairStep(p))

\* What a behaviour about directories records: for each file, the document
\* of the last successful save of its collection that returned while the
\* override selected its directory.
ObserveDirs ==
    /\ savedIn' =
          IF \E p \in Procs :
                HasReturned(p) /\ call[p].op = "save" /\ res'[p].ok
          THEN LET p == CHOOSE q \in Procs :
                            HasReturned(q) /\ call[q].op = "save"
               IN  [savedIn EXCEPT
                       ![<<ResolveDir(storage_path_state),
                           FileName(call[p].coll)>>] = call[p].arg]
          ELSE savedIn
    /\ UNCHANGED <<saved, lastSet, fresh, lastOk, bootExpect, lastTheme>>

\* load and save of both collections and the changes of directory.
MigrCommands ==
    {[op |-> "set_storage_path", coll |-> Unset, arg |-> a] :
        a \in {""} \cup Dirs}
    \cup {[op |-> "load", coll |-> c, arg |-> Unset] : c \in Colls}
    \cup {[op |-> "save", coll |-> c, arg |-> d] : c \in Colls, d \in Docs}

MigrStep(p) ==
    \/ set_storage_path_clear(p) /\ faults' = faults /\ ObserveDirs
    \/ set_storage_path_check(p) /\ faults' = faults /\ ObserveDirs
    \/ set_storage_path_assign(p) /\ faults' = faults /\ ObserveDirs
    \/ load_or_create_config_exists(p) /\ faults' = faults /\ ObserveDirs
    \/ load_or_create_config_read(p) /\ faults' = faults /\ ObserveDirs
    \/ load_or_create_config_create(p) /\ faults' = faults /\ ObserveDirs
    \/ save_config(p) /\ faults' = faults /\ ObserveDirs
    \/ load_lock(p) /\ faults' = faults /\ ObserveDirs
    \/ load_read(p) /\ faults' = faults /\ ObserveDirs
    \/ save_lock(p) /\ faults' = faults /\ ObserveDirs
    \/ save_write(p) /\ faults' = faults /\ ObserveDirs

\* Documents are saved and loaded and the directory is changed, one command
\* at a time; no filesystem call fails and no directory is removed.
MigrNext ==
    \/ \E c \in MigrCommands :
          calls < MigrMaxCalls /\ AllIdle /\ Invoke(1, c) /\ ObserveDirs
    \/ \E p \in Procs : MigrStep(p)

MigrSpec == SpecInit /\ [][MigrNext]_vars

TypeOK ==
    /\ storage_path_state \in {""} \cup Dirs
    /\ lock \in Procs \cup {NoProc}
    /\ files \in [FilePaths -> Docs \cup {NoFile}]
    /\ dirs \subseteq Dirs
    /\ calls \in 0..SeqMaxCalls
    /\ faults \in 0..MaxFaults
    /\ restarts \in 0..MaxRestarts

\* ------------------------------------------------------------------ claims
Completed(p, op) == pc[p] = "idle" /\ call[p].op = op
AtFileAccess(p) == pc[p] \in {"load_read", "save_write"}
DirOf(d) == IF d = "" THEN AppDir ELSE d

\* C1: in sequential execution with failing configuration I/O, after every
\* completed call of a process whose start read the configuration, the
\* in-memory override equals the persisted storage_path.
C1_OverrideEqualsPersisted ==
    (AllIdle /\ ~bootFault) => storage_path_state = PersistedPath

\* C2: when only set_storage_path calls with valid arguments ran, concurrently
\* and without any I/O failure, then once all of them have returned the
\* in-memory override equals the persisted storage_path.
C2_ConcurrentSetsAgree ==
    ( /\ AllIdle
      /\ faults = 0
      /\ calls = Cardinality({p \in Procs : call[p] # NoCall})
      /\ \A p \in Procs :
            call[p] # NoCall =>
               /\ call[p].op = "set_storage_path"
               /\ call[p].arg \in {""} \cup Dirs
               /\ res[p].ok )
    => storage_path_state = PersistedPath

\* C3: round trip: a load of collection X that follows a successful
\* save(X, doc), with no set_storage_path and no other save of X completed in
\* between, returns exactly doc.
C3_RoundTrip ==
    \A p \in Procs :
        (Completed(p, "load") /\ res[p].ok /\ saved[call[p].coll] # Unset)
        => res[p].val = saved[call[p].coll]

\* The round trip of C3 for the loads whose read did not fail.
RoundTripWhenReadSucceeds ==
    \A p \in Procs :
        ( /\ Completed(p, "load")
          /\ io[p] # "fault"
          /\ saved[call[p].coll] # Unset )
        => res[p] = Ok(saved[call[p].coll])

\* C4: set_storage_path with a non-empty path that does not exist or is not a
\* directory returns an error, and neither its invocation nor its check
\* changes the override, the configuration file or the documents.
C4_InvalidPathChangesNothing ==
    [][\A p \in Procs :
          ( /\ pc'[p] # pc[p]
            /\ restarts' = restarts
            /\ call'[p].op = "set_storage_path"
            /\ call'[p].arg # ""
            /\ ~path_is_dir(call'[p].arg)
            /\ pc[p] \in {"idle", "ssp_check"} )
          => /\ storage_path_state' = storage_path_state
             /\ config_file' = config_file
             /\ files' = files
             /\ pc[p] = "ssp_check" =>
                   /\ pc'[p] = "idle"
                   /\ res'[p] = Err(IF call[p].arg \in {RegularFile}
                                    THEN "Path is not a directory"
                                    ELSE "Path does not exist")]_vars

C4_Witness ==
    \E p \in Procs :
        /\ Completed(p, "set_storage_path")
        /\ call[p].arg = RegularFile
        /\ ~res[p].ok
        /\ storage_path_state = "d1"
        /\ \E f \in FilePaths : files[f] # NoFile

\* C5: a load whose read fails for another reason than a missing file returns
\* an error to the caller, not "[]".
C5_ReadFailurePropagates ==
    \A p \in Procs :
        (Completed(p, "load") /\ io[p] = "fault") => ~res[p].ok

\* C6: a load of a collection whose resolved file does not exist returns
\* Ok("[]") and does not create the file (nor change any other file).
C6_MissingFileGivesEmptyArray ==
    [][\A p \in Procs :
          ( /\ pc[p] = "load_read"
            /\ pc'[p] = "idle"
            /\ restarts' = restarts
            /\ files[<<DirOf(storage_path_state), FileName(call[p].coll)>>]
                  = NoFile )
          => /\ res'[p] = Ok("[]")
             /\ files' = files]_vars

C6_Witness ==
    \E p \in Procs :
        /\ Completed(p, "load")
        /\ io[p] = "notfound"
        /\ res[p] = Ok("[]")
        /\ storage_path_state \in Dirs
        /\ files[<<storage_path_state, FileName(call[p].coll)>>] = NoFile

\* C7: restart consistency: after a start-up that read the persisted
\* configuration (at the first start, or after a crash at any step of any
\* command) the in-memory override equals the persisted storage_path; and
\* load_storage_path after a successful set_storage_path(validDir) followed
\* by a restart returns validDir.
C7_RestartConsistent ==
    /\ ((\A p \in Procs : call[p] = NoCall) /\ ~bootFault)
          => storage_path_state = PersistedPath
    /\ \A p \in Procs :
          ( /\ bootExpect # Unset
            /\ Completed(p, "load_storage_path")
            /\ res[p].ok )
          => res[p].val = bootExpect

C7_Witness ==
    \E p \in Procs :
        /\ restarts = 1
        /\ ~bootFault
        /\ bootExpect = "d2"
        /\ storage_path_state = "d2"
        /\ Completed(p, "load_storage_path")
        /\ res[p] = Ok("d2")

\* C8: after a successful set_storage_path(""), and until the next successful
\* set_storage_path, load_storage_path returns "" and every load and save
\* accesses its file in the default directory.
C8_ClearedMeansDefaultDir ==
    lastOk = "" =>
        /\ storage_path_state = ""
        /\ \A p \in Procs :
              /\ AtFileAccess(p) => path[p] = <<AppDir, FileName(call[p].coll)>>
              /\ (Completed(p, "load_storage_path") /\ res[p].ok)
                    => res[p].val = ""

C8_Witness ==
    \E p \in Procs :
        /\ lastOk = ""
        /\ pc[p] = "save_write"
        /\ path[p][1] = AppDir
        /\ dirs = Dirs
        /\ \E c \in Colls : files[<<"d1", FileName(c)>>] # NoFile

\* C9: a load or save invoked after set_storage_path(d) returned Ok, with no
\* set_storage_path invoked since, accesses its file inside d (inside the
\* default directory when d is empty).
C9_PathChangeTakesEffect ==
    \A p \in Procs :
        (AtFileAccess(p) /\ fresh[p])
        => /\ lastSet # Unset
           /\ path[p] = <<DirOf(lastSet), FileName(call[p].coll)>>

C9_Witness ==
    \E p \in Procs :
        /\ pc[p] = "save_write"
        /\ fresh[p]
        /\ lastSet = "d2"
        /\ PersistedPath = "d2"
        /\ path[p][1] = "d2"

\* C10 as stated: load and save hold the mutex only while the override is
\* read, not during the file access.
C10_LockOnlyWhileRead ==
    \A p \in Procs : AtFileAccess(p) => lock # p

\* C10 as amended: load and save hold the mutex from the read of the override
\* to the end of the file access, so the override cannot change in between
\* and the file accessed is always the one the current override selects.
C10_LockHeldAcrossFileAccess ==
    \A p \in Procs :
        AtFileAccess(p)
        => /\ lock = p
           /\ path[p] = <<DirOf(storage_path_state), FileName(call[p].coll)>>

\* A set_storage_path that has saved a new path waits for the mutex while a
\* save that read the old override is at its file access.
C10_Witness ==
    \E p, q \in Procs :
        /\ pc[p] = "save_write"
        /\ lock = p
        /\ pc[q] = "ssp_assign"
        /\ call[q].arg # storage_path_state
        /\ PersistedPath = call[q].arg

\* C11: in sequential execution, a get_theme that succeeds returns "light"
\* when the persisted record has no theme (no file included), and returns t
\* when set_theme(t) was the last set_theme and succeeded, whatever
\* set_storage_path calls and restarts came in between.
C11_ThemeReadsBack ==
    \A p \in Procs :
        (Completed(p, "get_theme") /\ res[p].ok)
        => /\ PersistedTheme = None => res[p].val = LightTheme
           /\ lastTheme # Unset => res[p].val = lastTheme

\* set_theme("dark"), set_theme("blue"), a set_storage_path that rewrote the
\* record, a restart, and then get_theme.
C11_Witness ==
    \E p \in Procs :
        /\ Completed(p, "get_theme")
        /\ res[p] = Ok("blue")
        /\ lastTheme = "blue"
        /\ restarts = 1
        /\ PersistedPath = "d1"

C11_WitnessLight ==
    \E p \in Procs :
        /\ Completed(p, "get_theme")
        /\ res[p] = Ok(LightTheme)
        /\ bootFault
        /\ config_file = Some(to_string(DefaultConfig))

\* The lists file the current override selects.
ListsFile == files[<<DirOf(storage_path_state), FileName("lists")>>]

\* An element that is an object whose id is the string list_id and whose
\* todos is a non-empty array.
IsListWithTodos(e, list_id) ==
    /\ e.t = "object"
    /\ "id" \in DOMAIN e.v
    /\ e.v["id"].t = "string"
    /\ e.v["id"].v = list_id
    /\ "todos" \in DOMAIN e.v
    /\ e.v["todos"].t = "array"
    /\ e.v["todos"].v # <<>>

\* C12: has_todos_in_list(list_id) returns false when there is no lists
\* file, an error when the lists document is not JSON or not an array, and
\* otherwise true exactly when some element of the array is an object whose
\* id is the string list_id and whose todos is a non-empty array.
C12_HasTodosIffMatchingList ==
    \A p \in Procs :
        Completed(p, "has_todos_in_list")
        => IF ListsFile = NoFile
           THEN res[p].ok /\ res[p].val = FALSE
           ELSE IF from_str_value(ListsFile) = None
           THEN ~res[p].ok
           ELSE IF from_str_value(ListsFile)[1].t # "array"
           THEN ~res[p].ok
           ELSE /\ res[p].ok
                /\ res[p].val =
                      (\E e \in Range(from_str_value(ListsFile)[1].v) :
                           IsListWithTodos(e, call[p].arg))

\* The second element of the array is the list asked for and has a todo.
C12_Witness ==
    \E p \in Procs :
        /\ Completed(p, "has_todos_in_list")
        /\ call[p].arg = "L1"
        /\ ListsFile # NoFile
        /\ from_str_vec(ListsFile) # None
        /\ Len(from_str_vec(ListsFile)[1]) = 2
        /\ res[p].ok
        /\ res[p].val = TRUE

\* The other outcomes: false for an element with another id, without todos
\* or with a field of another type, and an error for a JSON object.
C12_WitnessFalse ==
    \E p \in Procs :
        /\ Completed(p, "has_todos_in_list")
        /\ ListsFile = "[{\"id\":1,\"todos\":[{\"title\":\"a\"}]}]"
        /\ res[p].ok
        /\ res[p].val = FALSE

C12_WitnessError ==
    \E p \in Procs :
        /\ Completed(p, "has_todos_in_list")
        /\ ListsFile = "{\"id\":\"L1\",\"todos\":[{\"title\":\"a\"}]}"
        /\ ~res[p].ok

\* C13: a save made while the override names a directory that no longer
\* exists returns an error; it creates neither the directory nor a file and
\* leaves the override and the configuration file as they were.
C13_SaveNeverCreatesDir ==
    [][\A p \in Procs :
          ( /\ pc[p] = "save_write"
            /\ pc'[p] = "idle"
            /\ restarts' = restarts
            /\ storage_path_state # ""
            /\ storage_path_state \notin dirs )
          => /\ ~res'[p].ok
             /\ dirs' = dirs
             /\ files' = files
             /\ storage_path_state' = storage_path_state
             /\ config_file' = config_file]_vars

\* The directory set with set_storage_path was removed, and a save failed.
C13_Witness ==
    \E p \in Procs :
        /\ Completed(p, "save")
        /\ io[p] = "nodir"
        /\ ~res[p].ok
        /\ lastOk = "d1"
        /\ storage_path_state = "d1"
        /\ PersistedPath = "d1"
        /\ "d1" \notin dirs
        /\ \A f \in FilePaths : files[f] = NoFile

\* C14: under fair scheduling every invoked command eventually returns, and
\* the mutex is only ever held by a load_* or save_* between its lock and its
\* return (so has_todos_in_list holds it only inside load_lists, and nobody
\* locks it twice).
C14_EveryCommandReturns ==
    /\ \A p \in Procs : (pc[p] # "idle") ~> (pc[p] = "idle")
    /\ [](\A p \in Procs : (lock = p) <=> AtFileAccess(p))

\* has_todos_in_list waits for the mutex that a save holds.
C14_Witness ==
    \E p, q \in Procs :
        /\ pc[p] = "load_lock"
        /\ call[p].op = "has_todos_in_list"
        /\ lock = q
        /\ pc[q] = "save_write"

\* C15: when set_theme(t) and set_storage_path(d), d a directory, were the
\* only commands, ran concurrently and both returned Ok, the persisted record
\* has theme t and storage_path d, and the override equals the persisted
\* storage_path.
C15_ConfigUpdatesBothKept ==
    \A p, q \in Procs :
        ( /\ AllIdle
          /\ calls = 2
          /\ call[p].op = "set_theme"
          /\ call[q].op = "set_storage_path"
          /\ call[q].arg \in Dirs
          /\ res[p].ok
          /\ res[q].ok )
        => /\ PersistedTheme = Some(call[p].arg)
           /\ PersistedPath = call[q].arg
           /\ storage_path_state = PersistedPath

\* C16: a start-up that read the persisted record leaves its storage_path
\* in the override, and afterwards every step that changes the override is
\* a step of a running set_storage_path that assigns its argument, or such
\* a start-up: no step of load, save, has_todos_in_list, load_storage_path,
\* set_theme or get_theme, successful or failing, changes it.
C16_OnlySetStoragePathChangesOverride ==
    /\ ~bootFault => storage_path_state = PersistedPath
    /\ [][storage_path_state' # storage_path_state
            => \/ /\ restarts' # restarts
                  /\ ~bootFault' => storage_path_state' = PersistedPath'
               \/ \E p \in Procs :
                     /\ restarts' = restarts
                     /\ pc[p] # "idle"
                     /\ pc'[p] # pc[p]
                     /\ call[p].op = "set_storage_path"
                     /\ storage_path_state' = call[p].arg]_vars

\* A save failed after set_storage_path("d2") and the override is still d2.
C16_Witness ==
    \E p \in Procs :
        /\ Completed(p, "save")
        /\ ~res[p].ok
        /\ lastOk = "d2"
        /\ storage_path_state = "d2"

\* C17: in sequential execution no step of set_theme changes the persisted
\* storage_path, no step of set_storage_path changes the persisted theme,
\* and neither changes a document; the save_config step of each writes the
\* command's argument into its own field.
C17_ConfigMutationChangesOwnField ==
    [][\A p \in Procs :
          (pc[p] # "idle" /\ pc'[p] # pc[p] /\ restarts' = restarts)
          => /\ call[p].op = "set_theme"
                => /\ PersistedPath' = PersistedPath
                   /\ files' = files
                   /\ (pc[p] = "save_config" /\ res'[p].ok)
                         => PersistedTheme' = Some(call[p].arg)
             /\ call[p].op = "set_storage_path"
                => /\ PersistedTheme' = PersistedTheme
                   /\ files' = files
                   /\ (pc[p] = "save_config" /\ config_file' # config_file)
                         => PersistedPath' = call[p].arg]_vars

\* set_storage_path("d2") succeeded on a record that has a theme, with a
\* document on disk.
C17_Witness ==
    \E p \in Procs :
        /\ Completed(p, "set_storage_path")
        /\ res[p].ok
        /\ PersistedPath = "d2"
        /\ PersistedTheme = Some("dark")
        /\ \E f \in FilePaths : files[f] # NoFile

\* set_theme succeeded on a record that has a storage path.
C17_WitnessTheme ==
    \E p \in Procs :
        /\ Completed(p, "set_theme")
        /\ res[p].ok
        /\ PersistedPath = "d2"
        /\ PersistedTheme = Some("dark")

\* C18: every file holds exactly the document of the last successful save
\* of its collection made while the override selected its directory (no file
\* when there was none): a change of directory and the saves made under
\* another directory or of the other collection leave it alone.  A load
\* returns that document for the directory the override selects now, "[]"
\* when there is none.
C18_DocumentsStayInTheirDirectory ==
    /\ files = savedIn
    /\ \A p \in Procs :
          Completed(p, "load")
          => LET doc == savedIn[<<DirOf(storage_path_state),
                                  FileName(call[p].coll)>>]
             IN  res[p] = Ok(IF doc = NoFile THEN "[]" ELSE doc)

\* "a" was saved under d1, "b" under d2, and back under d1 load returns "a".
C18_Witness ==
    \E p \in Procs : \E c \in Colls :
        /\ Completed(p, "load")
        /\ call[p].coll = c
        /\ storage_path_state = "d1"
        /\ res[p] = Ok("a")
        /\ savedIn[<<"d1", FileName(c)>>] = "a"
        /\ savedIn[<<"d2", FileName(c)>>] = "b"

\* After the change to a directory without the file, load returns "[]".
C18_WitnessEmpty ==
    \E p \in Procs : \E c \in Colls :
        /\ Completed(p, "load")
        /\ call[p].coll = c
        /\ storage_path_state = "d2"
        /\ res[p] = Ok("[]")
        /\ savedIn[<<"d1", FileName(c)>>] = "a"

\* C19: when get_theme, load_storage_path, set_theme or set_storage_path
\* returns Ok, config.json exists; and when get_theme or load_storage_path
\* found no file, the file it leaves is the serialized default record, which
\* reads back as the default record, and its answer is the default one
\* ("light", the empty path).
C19_AbsentConfigIsCreatedAsDefault ==
    [][\A p \in Procs :
          ( /\ pc[p] # "idle"
            /\ pc'[p] = "idle"
            /\ restarts' = restarts
            /\ res'[p].ok
            /\ call[p].op \in {"get_theme", "load_storage_path", "set_theme",
                               "set_storage_path"} )
          => /\ config_file' # None
             /\ ( /\ config_file = None
                  /\ call[p].op \in {"get_theme", "load_storage_path"} )
                => /\ config_file' = Some(to_string(DefaultConfig))
                   /\ from_str(config_file'[1]) = Some(DefaultConfig)
                   /\ res'[p].val = IF call[p].op = "get_theme"
                                     THEN LightTheme
                                     ELSE DefaultConfig.storage_path]_vars

\* The start could not create config.json; load_storage_path created it.
C19_Witness ==
    \E p \in Procs :
        /\ bootFault
        /\ calls = 1
        /\ Completed(p, "load_storage_path")
        /\ res[p] = Ok("")
        /\ config_file = Some(to_string(DefaultConfig))

====
